---- MODULE Spec2Model ----
(***************************************************************************)
(* TactiMesh node runtime (src/tactimesh.py): the envelope codec, the      *)
(* SQLite store, the outbound priority queue with its transmit loop and    *)
(* the receive loop with its observer fan-out, the key file and the start  *)
(* of the process, and the geofence evaluation.                            *)
(*                                                                         *)
(* One node (Identity) is modelled.  Frames it hands to its transports go  *)
(* onto `wire`; the frames it reads from its transports are either frames  *)
(* on `wire` (a peer running the same code receives exactly these bytes)   *)
(* or frames of other senders drawn from PeerFrames.                       *)
(***************************************************************************)
EXTENDS Integers, Sequences, FiniteSets, TLC

(* ---------------------------- bounds ----------------------------------- *)
MaxSend == 3        \* calls of send_message
MaxRecv == 2        \* datagrams read by the receive loop from other senders
MaxLoop == 1        \* datagrams read by the receive loop that the node's own code framed
MaxUpdate == 2      \* calls of update_position
MaxBoot == 3        \* processes started on the machine, the first included
MaxStart == 2       \* start() calls that return True in one process
MaxZones == 2       \* rows of the geofences table

(* ---------------------------- universe --------------------------------- *)
TOPIC_BLUE_FORCE == "blue_force"
TOPIC_COMMAND == "command"

\* node_ids in play: "a" is this node, "b" a peer.
NodeIds == {"a", "b"}
\* TacticalMessage.priority as callers pass it: 0 = FLASH, 3 = ROUTINE.
Priorities == {0, 3}
\* The websockets that may be in connected_clients.
Observers == {"o1", "o2"}

\* The node under study: crypto.keys["node_id"], crypto.keys["sig_public"].
Identity == [node_id |-> "a", verify_key |-> "VKa"]

\* Identities other senders put into sender_identity.  "VKx" is a key pair
\* generated by somebody who is not node b; nobody but the node itself
\* holds the signing key of "VKa".
PeerIdentities ==
    { [node_id |-> "b", verify_key |-> "VKb"],
      [node_id |-> "b", verify_key |-> "VKx"] }

(* ---------------------------- crypto ----------------------------------- *)
\* A signature value names the key pair that made it and the bytes signed.
\* NullSig is JSON null / Python None, EmptySig the empty string.
NullSig == [key |-> "null", data |-> <<>>]
EmptySig == [key |-> "", data |-> <<>>]

\* MilitaryCrypto.sign_message with the key pair whose verify key is k.
SignMessage(k, data) == [key |-> k, data |-> data]

VerifySignatureAnyData(data, signature, public_key) ==
    signature.key = public_key

\* MilitaryCrypto.verify_signature: True iff the signature was made over
\* exactly these bytes by the holder of public_key; anything else is False.
VerifySignature(data, signature, public_key) ==
    /\ signature.key = public_key
    /\ signature.data = data

(* ---------------------------- payloads --------------------------------- *)
\* A payload is a JSON map.  shape = "position" when its keys are exactly the
\* fields of Position (Position(**payload) succeeds), "other" otherwise.
OtherPayload == [shape |-> "other", node_id |-> "", timestamp |-> 0]

\* Position / asdict(position): the fields the claims speak of.  Degrees and
\* metres are whole numbers here.
Position(n, lat, lon, accuracy, speed, t) ==
    [shape |-> "position", node_id |-> n, lat |-> lat, lon |-> lon,
     accuracy |-> accuracy, speed |-> speed, timestamp |-> t]

\* A position report of node n at time t with an unremarkable fix.
PositionPayload(n, t) == Position(n, 0, 0, 10, 0, t)

(* ---------------------------- messages --------------------------------- *)
\* TacticalMessage: the fields the runtime reads or callers choose.
\* msg_type, classification, expires and attachments are constants on every
\* path and are left out.
TacticalMessage(id, topic, sender, recipients, priority, ts, payload, sig) ==
    [msg_id |-> id, topic |-> topic, sender |-> sender,
     recipients |-> recipients, priority |-> priority,
     timestamp |-> ts, payload |-> payload, signature |-> sig]

\* dict.pop("signature", None) on the JSON object of a message.
PopSignature(message_data) ==
    [k \in DOMAIN message_data \ {"signature"} |-> message_data[k]]

\* message_data.get("signature")
GetSignature(message_data) ==
    IF "signature" \in DOMAIN message_data THEN message_data.signature ELSE NullSig

\* json.dumps(envelope, separators=(',', ':')): the keys present, in
\* insertion order, each with its value.  A key that is absent contributes
\* nothing; a key whose value is null contributes <<key, null>>.
DumpsMessage(message_data) ==
    << <<"msg_id", message_data.msg_id>>,
       <<"topic", message_data.topic>>,
       <<"sender", message_data.sender>>,
       <<"recipients", message_data.recipients>>,
       <<"priority", message_data.priority>>,
       <<"timestamp", message_data.timestamp>>,
       <<"payload", message_data.payload>> >>
    \o (IF "signature" \in DOMAIN message_data
        THEN << <<"signature", message_data.signature>> >>
        ELSE <<>>)

JsonDumps(envelope) ==
    << <<"version", envelope.version>>,
       <<"sender_identity", envelope.sender_identity>>,
       <<"message", DumpsMessage(envelope.message)>> >>

Envelope(version, identity, message_data) ==
    [version |-> version, sender_identity |-> identity, message |-> message_data]

EncodeMessageUnsigned(identity, message) == Envelope("1.0", identity, message)

\* TactiMeshNode._encode_message run by the node whose identity is
\* `identity`: asdict(message) keeps the key "signature" (value None) in the
\* bytes that are signed, then the signature is put in its place.
EncodeMessage(identity, message) ==
    LET envelope == Envelope("1.0", identity, message)
        data == JsonDumps(envelope)
        signature == SignMessage(identity.verify_key, data)
    IN Envelope("1.0", identity, [message EXCEPT !.signature = signature])

\* The bytes _decode_message hands to verify_signature: the envelope with
\* the key "signature" removed from the message object.
VerifyData(frame) ==
    JsonDumps(Envelope(frame.version, frame.sender_identity,
                       PopSignature(frame.message)))

\* envelope["sender_identity"] and envelope["message"] are there: a datagram
\* that is not such a JSON object raises inside _decode_message, which
\* catches it and returns None.
Parses(frame) == {"sender_identity", "message"} \subseteq DOMAIN frame

DecodeVerifiesResultIgnored(frame) ==
    /\ Parses(frame)
    /\ GetSignature(frame.message) \notin {NullSig, EmptySig}

DecodeVerifiesIfSigned(frame) ==
    /\ Parses(frame)
    /\ LET signature == GetSignature(frame.message)
       IN \/ signature \in {NullSig, EmptySig}
          \/ VerifySignature(VerifyData(frame), signature,
                             frame.sender_identity.verify_key)

\* _decode_message up to the verification: TRUE iff the frame parses and
\* gets past the unsigned check and the signature check.
DecodeVerifies(frame) ==
    /\ Parses(frame)
    /\ LET signature == GetSignature(frame.message)
       IN /\ signature # NullSig
          /\ signature # EmptySig
          /\ VerifySignature(VerifyData(frame), signature,
                             frame.sender_identity.verify_key)

(* ---------------------------- store ------------------------------------ *)
\* INSERT OR REPLACE on a table whose primary key is k.
InsertOrReplace(table, k, row) ==
    [x \in DOMAIN table \cup {k} |-> IF x = k THEN row ELSE table[x]]

EmptyTable == [x \in {} |-> 0]

VARIABLES
    nodes,              \* nodes table: node_id -> [verify_key, last_seen]
    positions,          \* positions table: node_id -> Position
    messages,           \* messages table: msg_id -> TacticalMessage
    outbox,             \* asyncio.PriorityQueue: the heap list of (priority, message)
    inbox,              \* asyncio.Queue of (message, sender_identity)
    transports,         \* self.transports
    connected_clients,  \* self.connected_clients
    wire,               \* frames handed to the transports, in order
    delivered,          \* per observer, the messages pushed to it, in order
    calls,              \* the send_message calls so far: the message built, the
                        \* outcome, and how many frames had been sent before it
    nrecv,              \* datagrams of other senders read so far
    nloop,              \* datagrams framed by this code read so far
    lastRead,           \* the datagram the receive loop read last: what kind
                        \* of frame it was, which store call raised and
                        \* which observers' pushes raised
    awaiting,           \* where the receive loop is suspended, if it is: the
                        \* send_text it awaits in _broadcast_to_clients
    running,            \* self.running
    tasks,              \* the tasks start() created: "running" or "terminated"
    lastSent,           \* what went wrong in the transmit loop's last iteration
    adapters,           \* per transport in self.transports, the adapter's state
    stopRequested,      \* stop() has been called on the transports
    current_position,   \* self.current_position
    nupdate,            \* calls of update_position so far
    key_file,           \* KEY_PATH on disk
    keys,               \* crypto.keys of the running process
    nboot,              \* processes started so far on this machine
    started,            \* what start() returned in this process, if called
    ntasks,             \* loop tasks start() has created in this process
    pending,            \* transports whose send_message task for the message
                        \* in hand has not ended
    geofences,          \* geofences table, in rowid order
    lastCheck           \* the last geofence evaluation: its position and result

\* What only the construction and the start of a process touch.
bootVars == <<key_file, keys, nboot, started, ntasks>>

\* What neither loop, nor send_message, nor the observers touch.
\* The geofences table and what was last read from it.
geoVars == <<geofences, lastCheck>>

sideVars == <<current_position, nupdate, bootVars, geoVars, pending>>

vars == <<nodes, positions, messages, outbox, inbox, transports,
          connected_clients, wire, delivered, calls, nrecv, nloop, lastRead,
          awaiting, running, tasks, lastSent, adapters, stopRequested,
          sideVars>>

\* INSERT OR IGNORE: a row that exists is left as it is.
UpsertNodeOnce(table, identity, now) ==
    IF identity.node_id \in DOMAIN table THEN table
    ELSE InsertOrReplace(table, identity.node_id,
                         [verify_key |-> identity.verify_key, last_seen |-> now])

\* TacticalDatabase.upsert_node: INSERT OR REPLACE of the identity with
\* last_seen = time.time().
UpsertNode(table, identity, now) ==
    InsertOrReplace(table, identity.node_id,
                    [verify_key |-> identity.verify_key, last_seen |-> now])

\* time.time() as the receive loop reads it: time is counted in datagrams
\* read, and the node registered itself at time 0.
Now == nrecv + nloop

PositionKeyWithTimestamp(position) == <<position.node_id, position.timestamp>>

\* PRIMARY KEY of the positions table: node_id alone.
PositionKey(position) == position.node_id

\* TacticalDatabase.upsert_position
UpsertPosition(table, position) ==
    InsertOrReplace(table, PositionKey(position),
                    [node_id |-> position.node_id, lat |-> position.lat,
                     lon |-> position.lon, accuracy |-> position.accuracy,
                     speed |-> position.speed, timestamp |-> position.timestamp])

\* TacticalDatabase.store_message
StoreMessage(table, message) ==
    InsertOrReplace(table, message.msg_id, message)

(* ---------------------------- outbound queue --------------------------- *)
\* (priority, message) < (priority', message') as Python evaluates it: the
\* priorities decide when they differ; equal priorities fall through to the
\* messages, which are equal only when they are the same message, and
\* TacticalMessage defines no ordering, so `<` raises TypeError.
TupleLess(x, y) ==
    IF x[1] # y[1] THEN (IF x[1] < y[1] THEN "lt" ELSE "ge")
    ELSE IF x[2] = y[2] THEN "ge"
    ELSE "TypeError"

Swap(heap, i, j) == [heap EXCEPT ![i] = heap[j], ![j] = heap[i]]

\* heapq siftdown (positions 1-based): move the item at pos towards the
\* root while it is smaller than its parent.  A raising comparison leaves
\* the list as it is at that moment.
RECURSIVE SiftDown(_, _, _)
SiftDown(heap, startpos, pos) ==
    IF pos > startpos
    THEN LET parentpos == pos \div 2
             cmp == TupleLess(heap[pos], heap[parentpos])
         IN IF cmp = "TypeError" THEN [heap |-> heap, err |-> TRUE]
            ELSE IF cmp = "ge" THEN [heap |-> heap, err |-> FALSE]
            ELSE SiftDown(Swap(heap, pos, parentpos), startpos, parentpos)
    ELSE [heap |-> heap, err |-> FALSE]

\* heapq siftup: bubble the smaller child up until a leaf is reached, then
\* sift the item down from there.
RECURSIVE SiftUp(_, _, _)
SiftUp(heap, startpos, pos) ==
    IF pos <= Len(heap) \div 2
    THEN LET left == 2 * pos
             cmp == IF left + 1 <= Len(heap)
                    THEN TupleLess(heap[left], heap[left + 1])
                    ELSE "lt"
             childpos == IF cmp = "lt" THEN left ELSE left + 1
         IN IF cmp = "TypeError" THEN [heap |-> heap, err |-> TRUE]
            ELSE SiftUp(Swap(heap, pos, childpos), startpos, childpos)
    ELSE SiftDown(heap, startpos, pos)

\* PriorityQueue._put = heappush: append, then sift down.
HeapPush(heap, item) ==
    SiftDown(Append(heap, item), 1, Len(heap) + 1)

\* PriorityQueue._get = heappop: take the last item off; if the list is then
\* empty return it, else put it at the root, sift up and return the old
\* root.  When a comparison raises the old root is returned to nobody.
HeapPop(heap) ==
    LET last == heap[Len(heap)]
        rest == SubSeq(heap, 1, Len(heap) - 1)
    IN IF rest = <<>>
       THEN [heap |-> rest, err |-> FALSE, item |-> last]
       ELSE LET r == SiftUp([rest EXCEPT ![1] = last], 1, 1)
            IN [heap |-> r.heap, err |-> r.err, item |-> rest[1]]

\* self.current_position = None
NoPosition == [shape |-> "none"]

\* awaiting when the receive loop is not inside a send_text.
NoPush == [observer |-> "none"]

\* lastRead.frame when the datagram read last was not an authentic frame.
NoFrame == [version |-> "none"]

(* ---------------------------- the loops' handlers ---------------------- *)
\* What leaves the try block of a loop iteration: nothing, the TimeoutError
\* of wait_for on an empty queue, or an exception of a class derived from
\* Exception (TypeError, sqlite3.Error, a signing failure, ...).
ExceptTimeoutOnly(raised) == raised = "TimeoutError"

\* The except clauses of transmit_loop (`except asyncio.TimeoutError`,
\* `except Exception`) and of receive_loop (`except Exception`): TRUE iff
\* the exception is caught inside the while loop.
ExceptException(raised) == raised \in {"TimeoutError", "Exception"}

\* The task after an iteration: an exception no clause catches leaves the
\* coroutine and ends the task.
AfterIteration(raised) ==
    IF raised = "none" \/ ExceptException(raised) THEN "running" ELSE "terminated"

(* ---------------------------- key material ----------------------------- *)
\* str(uuid.uuid4()) and SigningKey.generate() of the n-th generation on
\* this machine: fresh each time.  The first one is the identity under
\* study.
NodeIdPool == <<"a", "a2", "a3", "a4", "a5", "a6">>

GenerateKeys(n) ==
    [node_id |-> NodeIdPool[n],
     sig_public |-> IF n = 1 THEN Identity.verify_key ELSE "VK" \o NodeIdPool[n]]

\* TactiMeshNode.__init__: NodeIdentity(node_id=crypto.keys["node_id"],
\* verify_key=crypto.keys["sig_public"], ...)
NodeIdentity(k) == [node_id |-> k.node_id, verify_key |-> k.sig_public]

\* KEY_PATH: absent, holding the JSON of a key set, or holding what a
\* json.dump that raised left behind after open(KEY_PATH, 'w') truncated it.
NoFile == [state |-> "absent", keys |-> [node_id |-> "", sig_public |-> ""]]

PartialFile == [state |-> "partial", keys |-> [node_id |-> "", sig_public |-> ""]]

KeysFile(k) == [state |-> "keys", keys |-> k]

\* How the try block that saves the keys ends: all of it ran, open() raised
\* (read-only or missing directory), json.dump raised after open() had
\* truncated the file (disk full), or os.chmod raised on the complete file.
SaveOutcomes == {"ok", "open_failed", "dump_failed", "chmod_failed"}

SaveKeys(file, k, save) ==
    CASE save = "open_failed" -> file
      [] save = "dump_failed" -> PartialFile
      [] OTHER -> KeysFile(k)

\* MilitaryCrypto._load_or_generate_keys.  If KEY_PATH exists and open and
\* json.load succeed, the file's keys are returned.  Otherwise (no file, or
\* the exception was logged) the n-th key set is generated, the save is
\* attempted, its exception is logged, and the new keys are returned.
\* `readable` = FALSE is an open() that raises on an intact file.
LoadOrGenerateKeys(file, readable, n, save) ==
    IF file.state = "keys" /\ readable
    THEN [keys |-> file.keys, file |-> file, generated |-> FALSE]
    ELSE [keys |-> GenerateKeys(n),
          file |-> SaveKeys(file, GenerateKeys(n), save),
          generated |-> TRUE]

(* ---------------------------- geofences -------------------------------- *)
ZoneTypes == {"FRIENDLY", "HOSTILE", "RESTRICTED", "OBJECTIVE"}

\* zone_id is the primary key of the geofences table: the i-th row of a
\* table has the i-th id.
ZoneIds == <<"Z", "Z2", "Z3">>

\* What wkt.loads makes of the polygon column.  The polygons are
\* rectangles with corners (xmin, ymin) and (xmax, ymax), x being the
\* longitude: the square (0,0)-(10,10) and a strip twice as wide.
Square == [xmin |-> 0, ymin |-> 0, xmax |-> 10, ymax |-> 10]

Strip == [xmin |-> 0, ymin |-> 0, xmax |-> 20, ymax |-> 10]

Polygons == {Square, Strip}

\* The rows a geofences table may hold.
ZoneRows(i) ==
    { [zone_id |-> ZoneIds[i], zone_type |-> type, polygon |-> polygon,
       active |-> active] :
        type \in ZoneTypes, polygon \in Polygons, active \in BOOLEAN }

\* Tables of 1..MaxZones rows, in rowid order.
ZoneTables ==
    UNION { { table \in [1..n -> UNION { ZoneRows(i) : i \in 1..n }] :
                \A i \in 1..n : table[i] \in ZoneRows(i) } : n \in 1..MaxZones }

\* Point(position.lon, position.lat)
Point(position) == [x |-> position.lon, y |-> position.lat]

\* shapely's polygon.contains(point): the point lies in the interior; a
\* point on the boundary is not contained.
Contains(polygon, point) ==
    /\ polygon.xmin < point.x /\ point.x < polygon.xmax
    /\ polygon.ymin < point.y /\ point.y < polygon.ymax

\* SELECT ... FROM geofences WHERE active = TRUE
ActiveGeofences(table) == SelectSeq(table, LAMBDA row : row.active)

IsViolationOfAnyType(zone_type, inside) == inside

\* `zone_type in ["HOSTILE", "RESTRICTED"] and polygon.contains(point)`
IsViolation(zone_type, inside) ==
    zone_type \in {"HOSTILE", "RESTRICTED"} /\ inside

\* The for loop of check_geofence_violations over the fetched rows.
RECURSIVE CheckRows(_, _, _)
CheckRows(rows, point, violations) ==
    IF rows = <<>> THEN violations
    ELSE LET row == Head(rows)
         IN CheckRows(Tail(rows), point,
                IF IsViolation(row.zone_type, Contains(row.polygon, point))
                THEN Append(violations,
                            [zone_id |-> row.zone_id, type |-> row.zone_type])
                ELSE violations)

\* SituationalAwareness.check_geofence_violations
CheckGeofenceViolationsOf(table, position) ==
    CheckRows(ActiveGeofences(table), Point(position), <<>>)

\* lastCheck before any check.
NoCheck == [position |-> NoPosition, violations |-> <<>>]

(* ---------------------------- initial state ---------------------------- *)
\* After __init__, initialize() and start(): the node's own row is in the
\* nodes table, at least one transport started, both loops run.
InitStarted ==
    /\ nodes = UpsertNode(EmptyTable, Identity, 0)
    /\ positions = EmptyTable
    /\ messages = EmptyTable
    /\ outbox = <<>>
    /\ inbox = <<>>
    /\ transports \in {<<"batman">>, <<"batman", "lora">>}
    /\ connected_clients = Observers
    /\ wire = <<>>
    /\ delivered = [o \in Observers |-> <<>>]
    /\ calls = <<>>
    /\ nrecv = 0
    /\ nloop = 0
    /\ lastRead = [class |-> "none", frame |-> NoFrame, fail |-> "none",
                    raised |-> {}]
    /\ awaiting = NoPush
    /\ running = TRUE
    /\ tasks = [transmit_loop |-> "running", receive_loop |-> "running"]
    /\ lastSent = [error |-> "none"]
    /\ adapters = [t \in {transports[i] : i \in DOMAIN transports} |->
                      [running |-> TRUE, handle |-> "open"]]
    /\ stopRequested = FALSE
    /\ current_position = NoPosition
    /\ nupdate = 0
    /\ keys = GenerateKeys(1)
    /\ key_file = KeysFile(GenerateKeys(1))
    /\ nboot = 1
    /\ started = "True"
    /\ ntasks = [transmit_loop |-> 1, receive_loop |-> 1]
    /\ pending = {}

\* _init_database creates the geofences table empty, and nothing in the
\* program writes it.
Init ==
    /\ InitStarted
    /\ geofences = <<>>
    /\ lastCheck = NoCheck

(* ---------------------------- outbound path ---------------------------- *)
\* uuid.uuid4() of the k-th call: fresh, and distinct from every id another
\* sender uses.
LocalMsgId(k) == <<"a", k>>

\* What send_message hands back to its caller: the function has no return
\* statement on any path, the except clause included, so the caller gets
\* None whatever happened.
SendMessageReturns(outcome) == "None"

PutReachedAlways(storeOk) == TRUE

\* Whether send_message reaches `await self.outbox.put(...)`: store_message
\* raising jumps to the except clause.
PutReached(storeOk) == storeOk

\* TactiMeshNode.send_message.  storeOk = FALSE is sqlite3 raising in
\* store_message.  timestamp = time.time() is the number of the call.
\* The body of send_message: what it does to the messages table, the
\* outbound queue and the record of calls.  `recipients or []`: a caller
\* who passes nothing and one who passes [] both give <<>>.
SendMessageBody(topic, payload, recipients, priority, storeOk) ==
    LET k == Len(calls) + 1
        message == TacticalMessage(LocalMsgId(k), topic, Identity.node_id,
                                   recipients, priority, k, payload, NullSig)
        put == HeapPush(outbox, <<priority, message>>)
        outcome == IF ~storeOk THEN "store_error"
                   ELSE IF put.err THEN "put_error" ELSE "queued"
    IN /\ messages' = IF storeOk THEN StoreMessage(messages, message) ELSE messages
       /\ outbox' = IF PutReached(storeOk) THEN put.heap ELSE outbox
       /\ calls' = Append(calls, [message |-> message, outcome |-> outcome,
                                   sentBefore |-> Len(wire),
                                   returned |-> SendMessageReturns(outcome)])

SendMessage(topic, payload, recipients, priority, storeOk) ==
    /\ Len(calls) < MaxSend
    /\ SendMessageBody(topic, payload, recipients, priority, storeOk)
    /\ UNCHANGED <<nodes, positions, inbox, transports, connected_clients,
                   wire, delivered, nrecv, nloop, lastRead, awaiting,
                   running, adapters, stopRequested, tasks, lastSent,
                   sideVars>>

UpdateBroadcastsAlways(upsertOk) == TRUE

\* Whether update_position reaches its send_message: upsert_position raising
\* jumps to the except clause, which logs and returns.
UpdateBroadcasts(upsertOk) == upsertOk

\* TactiMeshNode.update_position(lat, lon, accuracy=, speed=): build the
\* Position of the node's own node_id with timestamp = time.time() (the
\* number of the call), keep it in current_position, upsert it, then
\* send_message(topic=TOPIC_BLUE_FORCE, payload=asdict(position),
\* priority=2).  upsertOk = FALSE is sqlite3 raising in upsert_position,
\* storeOk = FALSE sqlite3 raising in send_message's store_message.
UpdatePosition(lat, lon, accuracy, speed, upsertOk, storeOk) ==
    LET position == Position(Identity.node_id, lat, lon, accuracy, speed,
                             nupdate + 1)
    IN /\ nupdate < MaxUpdate
       /\ Len(calls) < MaxSend
       /\ nupdate' = nupdate + 1
       /\ current_position' = position
       /\ positions' = IF upsertOk THEN UpsertPosition(positions, position)
                       ELSE positions
       /\ IF UpdateBroadcasts(upsertOk)
          THEN SendMessageBody(TOPIC_BLUE_FORCE, position, <<>>, 2, storeOk)
          ELSE UNCHANGED <<messages, outbox, calls>>
       /\ UNCHANGED <<nodes, inbox, transports, connected_clients,
                      wire, delivered, nrecv, nloop, lastRead, awaiting,
                      running, adapters, stopRequested, tasks, lastSent,
                      bootVars, geoVars, pending>>

\* The destination argument when a transport sends to nobody in particular.
NoDestination == "None"

DestinationFirstRecipient(message) ==
    IF message.recipients = <<>> THEN NoDestination ELSE message.recipients[1]

\* The destination transmit_loop gives a transport for a message: it calls
\* transport.send_message(data) with one argument, so the parameter keeps its
\* default None and BatmanAdvAdapter sends to BROADCAST_ADDR.
Destination(message) == NoDestination

\* One iteration of TactiMeshNode.transmit_loop that finds the queue
\* non-empty: get, encode and sign, send on every transport.  A TypeError
\* out of get() and an exception out of _encode_message (encodeOk = FALSE:
\* sign_message raised) reach the loop's `except Exception`; the message
\* taken off the queue is then gone.  `failed` are the transports whose
\* send raised: the adapter logs it, and gather(return_exceptions=True)
\* would absorb it anyway.
TransmitLoop(encodeOk, failed) ==
    /\ running
    /\ tasks.transmit_loop = "running"
    /\ outbox # <<>>
    /\ failed \subseteq {transports[i] : i \in DOMAIN transports}
    /\ LET got == HeapPop(outbox)
           data == EncodeMessage(Identity, got.item[2])
           raised == IF got.err \/ ~encodeOk THEN "Exception" ELSE "none"
       IN /\ outbox' = got.heap
          /\ wire' = IF raised # "none" THEN wire
                     ELSE Append(wire, [data |-> data,
                                        destination |-> Destination(got.item[2]),
                                        on |-> {transports[i] : i \in DOMAIN transports}])
          /\ tasks' = [tasks EXCEPT !.transmit_loop = AfterIteration(raised)]
          /\ lastSent' = [error |-> IF got.err THEN "TypeError"
                                    ELSE IF ~encodeOk THEN "encode_error"
                                    ELSE IF failed # {} THEN "send_error"
                                    ELSE "none"]
    /\ UNCHANGED <<nodes, positions, messages, inbox, transports,
                   connected_clients, delivered, calls, nrecv, nloop, lastRead,
                   awaiting, running, adapters, stopRequested,
                   sideVars>>

\* One iteration that finds the queue empty: wait_for raises TimeoutError
\* after a second and the loop continues.
TransmitIdle ==
    /\ running
    /\ tasks.transmit_loop = "running"
    /\ outbox = <<>>
    /\ tasks' = [tasks EXCEPT !.transmit_loop = AfterIteration("TimeoutError")]
    /\ UNCHANGED <<nodes, positions, messages, outbox, inbox, transports,
                   connected_clients, wire, delivered, calls, nrecv, nloop,
                   lastRead, awaiting, running, adapters, stopRequested, lastSent,
                   sideVars>>

GatherNotAwaited(tasksLeft) == TRUE

\* `await asyncio.gather(*tasks, return_exceptions=True)` returns when every
\* task has ended, by returning or by raising.
GatherReturned(tasksLeft) == tasksLeft = {}

\* The first half of an iteration of transmit_loop, up to the gather: get,
\* encode and sign, create one send_message task per transport.  The loop
\* is at its top only when the gather of the iteration before has returned.
TransmitBegin(encodeOk) ==
    /\ running
    /\ tasks.transmit_loop = "running"
    /\ outbox # <<>>
    /\ GatherReturned(pending)
    /\ LET got == HeapPop(outbox)
           data == EncodeMessage(Identity, got.item[2])
           raised == IF got.err \/ ~encodeOk THEN "Exception" ELSE "none"
           on == {transports[i] : i \in DOMAIN transports}
       IN /\ outbox' = got.heap
          /\ wire' = IF raised # "none" THEN wire
                     ELSE Append(wire, [data |-> data,
                                        destination |-> Destination(got.item[2]),
                                        on |-> on])
          /\ pending' = IF raised # "none" THEN pending ELSE pending \cup on
          /\ tasks' = [tasks EXCEPT !.transmit_loop = AfterIteration(raised)]
          /\ lastSent' = [error |-> IF got.err THEN "TypeError"
                                    ELSE IF ~encodeOk THEN "encode_error"
                                    ELSE "none"]
    /\ UNCHANGED <<nodes, positions, messages, inbox, transports,
                   connected_clients, delivered, calls, nrecv, nloop, lastRead,
                   awaiting, running, adapters, stopRequested,
                   current_position, nupdate, bootVars, geoVars>>

\* The send_message task of one transport ends: sendto or write returned,
\* or raised and the adapter logged it.
TransportSendEnds(transport, failed) ==
    /\ transport \in pending
    /\ pending' = pending \ {transport}
    /\ lastSent' = IF failed THEN [error |-> "send_error"] ELSE lastSent
    /\ UNCHANGED <<nodes, positions, messages, outbox, inbox, transports,
                   connected_clients, wire, delivered, calls, nrecv, nloop,
                   lastRead, awaiting, running, tasks, adapters, stopRequested,
                   current_position, nupdate, bootVars, geoVars>>

(* ---------------------------- shutdown ---------------------------------- *)
\* MeshTransportAdapter.stop, which BatmanAdvAdapter and LoRaMeshAdapter
\* inherit unchanged: it raises NotImplementedError and touches nothing.
AdapterStop(adapter) == [adapter |-> adapter, raised |-> "NotImplementedError"]

\* The host asks the node to stop.  TactiMeshNode has no stop method and no
\* code path assigns False to self.running; all there is to call is stop()
\* of each transport.
StopTransports ==
    /\ stopRequested' = TRUE
    /\ adapters' = [t \in DOMAIN adapters |-> AdapterStop(adapters[t]).adapter]
    /\ UNCHANGED <<nodes, positions, messages, outbox, inbox, transports,
                   connected_clients, wire, delivered, calls, nrecv, nloop,
                   lastRead, awaiting, running, tasks, lastSent, sideVars>>

(* ---------------------------- construction and start ------------------ *)
\* How BatmanAdvAdapter.start can go: `ip link show` exits non-zero,
\* socket.socket() raises, setsockopt or bind raises (port in use), or all
\* of it runs.
BatmanOutcomes == {"no_interface", "socket_failed", "bind_failed", "ok"}

\* How the LoRa part of initialize can go: lora not configured (no adapter
\* is made), pyserial not importable, serial.Serial raises, or it opens.
LoRaOutcomes == {"disabled", "unavailable", "open_failed", "ok"}

\* BatmanAdvAdapter.__init__ and LoRaMeshAdapter.__init__: no handle
\* (self.socket / self.serial_conn is None), not running.
NewAdapter == [running |-> FALSE, handle |-> "none"]

\* BatmanAdvAdapter.start: self.socket is assigned before setsockopt and
\* bind; the except clause logs and returns False.
BatmanStart(adapter, outcome) ==
    CASE outcome = "ok" ->
           [adapter |-> [running |-> TRUE, handle |-> "open"], returned |-> TRUE]
      [] outcome = "bind_failed" ->
           [adapter |-> [adapter EXCEPT !.handle = "open"], returned |-> FALSE]
      [] OTHER -> [adapter |-> adapter, returned |-> FALSE]

\* LoRaMeshAdapter.start: self.serial_conn is assigned by the constructor
\* call that may raise.
LoRaStart(adapter, outcome) ==
    IF outcome = "ok"
    THEN [adapter |-> [running |-> TRUE, handle |-> "open"], returned |-> TRUE]
    ELSE [adapter |-> adapter, returned |-> FALSE]

\* TactiMeshNode.initialize: register the own row, make and start the
\* adapters, append those whose start() returned True to self.transports,
\* and return whether self.transports holds any.  `adapters` are the
\* adapter objects as the latest start() left them.
Initialize(batman, lora) ==
    LET b == BatmanStart(NewAdapter, batman)
        l == LoRaStart(NewAdapter, lora)
        made == {"batman"} \cup (IF lora = "disabled" THEN {} ELSE {"lora"})
        kept == (IF b.returned THEN <<"batman">> ELSE <<>>)
                \o (IF l.returned THEN <<"lora">> ELSE <<>>)
    IN [nodes |-> UpsertNode(nodes, NodeIdentity(keys), Now),
        adapters |-> [t \in made \cup DOMAIN adapters |->
                         IF t \notin made THEN adapters[t]
                         ELSE IF t = "batman" THEN b.adapter ELSE l.adapter],
        transports |-> transports \o kept,
        returned |-> transports \o kept # <<>>]

\* TactiMeshNode.start: `if not await self.initialize(): return False`,
\* then running = True, both loop tasks are created, return True.  Nothing
\* keeps a caller from calling it again.
StartNode(batman, lora) ==
    LET init == Initialize(batman, lora)
    IN /\ ntasks.transmit_loop < MaxStart
       /\ nodes' = init.nodes
       /\ adapters' = init.adapters
       /\ transports' = init.transports
       /\ started' = IF init.returned THEN "True" ELSE "False"
       /\ running' = (running \/ init.returned)
       /\ tasks' = IF init.returned
                   THEN [transmit_loop |-> "running", receive_loop |-> "running"]
                   ELSE tasks
       /\ ntasks' = IF init.returned
                    THEN [l \in DOMAIN ntasks |-> ntasks[l] + 1]
                    ELSE ntasks
       /\ UNCHANGED <<positions, messages, outbox, inbox, connected_clients,
                      wire, delivered, calls, nrecv, nloop, lastRead, awaiting,
                      lastSent, stopRequested, current_position, nupdate,
                      key_file, keys, nboot, geoVars, pending>>

\* The process ends and the program is run again: TactiMeshNode(config)
\* builds MilitaryCrypto() and an empty node object; the database and the
\* key file are what the last process left.
Restart(readable, save) ==
    LET loaded == LoadOrGenerateKeys(key_file, readable, nboot + 1, save)
    IN /\ nboot < MaxBoot
       /\ nboot' = nboot + 1
       /\ keys' = loaded.keys
       /\ key_file' = loaded.file
       /\ started' = "not_called"
       /\ ntasks' = [transmit_loop |-> 0, receive_loop |-> 0]
       /\ pending' = {}
       /\ running' = FALSE
       /\ tasks' = [transmit_loop |-> "not_created", receive_loop |-> "not_created"]
       /\ transports' = <<>>
       /\ adapters' = [t \in {} |-> NewAdapter]
       /\ outbox' = <<>>
       /\ inbox' = <<>>
       /\ connected_clients' = {}
       /\ awaiting' = NoPush
       /\ current_position' = NoPosition
       /\ stopRequested' = FALSE
       /\ lastSent' = [error |-> "none"]
       /\ lastRead' = [class |-> "none", frame |-> NoFrame, fail |-> "none",
                    raised |-> {}]
       /\ UNCHANGED <<nodes, positions, messages, wire, delivered, calls,
                      nrecv, nloop, nupdate, geoVars>>

\* The first process on a machine without a key file, after
\* TactiMeshNode(config) and before start().
InitBoot ==
    /\ \E save \in SaveOutcomes :
          LET loaded == LoadOrGenerateKeys(NoFile, TRUE, 1, save)
          IN /\ keys = loaded.keys
             /\ key_file = loaded.file
    /\ nboot = 1
    /\ started = "not_called"
    /\ ntasks = [transmit_loop |-> 0, receive_loop |-> 0]
    /\ pending = {}
    /\ nodes = EmptyTable
    /\ positions = EmptyTable
    /\ messages = EmptyTable
    /\ outbox = <<>>
    /\ inbox = <<>>
    /\ transports = <<>>
    /\ connected_clients = {}
    /\ wire = <<>>
    /\ delivered = [o \in Observers |-> <<>>]
    /\ calls = <<>>
    /\ nrecv = 0
    /\ nloop = 0
    /\ lastRead = [class |-> "none", frame |-> NoFrame, fail |-> "none",
                    raised |-> {}]
    /\ awaiting = NoPush
    /\ running = FALSE
    /\ tasks = [transmit_loop |-> "not_created", receive_loop |-> "not_created"]
    /\ lastSent = [error |-> "none"]
    /\ adapters = [t \in {} |-> NewAdapter]
    /\ stopRequested = FALSE
    /\ current_position = NoPosition
    /\ nupdate = 0
    /\ geofences = <<>>
    /\ lastCheck = NoCheck

(* ---------------------------- geofence evaluation ---------------------- *)
\* A caller evaluates a position against the geofences table.
CheckGeofenceViolations(position) ==
    /\ lastCheck' = [position |-> position,
                     violations |-> CheckGeofenceViolationsOf(geofences, position)]
    /\ UNCHANGED <<nodes, positions, messages, outbox, inbox, transports,
                   connected_clients, wire, delivered, calls, nrecv, nloop,
                   lastRead, awaiting, running, tasks, lastSent, adapters,
                   stopRequested, current_position, nupdate, bootVars,
                   geofences, pending>>

\* Positions to evaluate, as (lat, lon): inside the square, outside both
\* polygons, inside the strip only, north of both, and on the square's edge.
GeoFixes == { <<5, 5>>, <<11, 11>>, <<5, 15>>, <<15, 5>>, <<5, 10>> }

CheckGeofence ==
    \E fix \in GeoFixes :
        CheckGeofenceViolations(Position(Identity.node_id, fix[1], fix[2], 10, 0, 1))

\* A started node over a geofences table somebody filled.
InitGeo ==
    /\ InitStarted
    /\ geofences \in ZoneTables
    /\ lastCheck = NoCheck

\* Geofence evaluation alone.
NextGeo == CheckGeofence

SpecGeo == InitGeo /\ [][NextGeo]_vars

(* ---------------------------- frames of other senders ------------------ *)
\* msg_ids are uuid4 strings: <<origin, n>> is the n-th id drawn at origin.
PeerMsgIds == { <<"p", 1>> }

PeerTimestamps == {1, 2}

\* A node_id no node has announced: it never gets a row in the nodes table.
UnknownNodeId == "c"

\* Payloads of blue_force reports: not a position, positions of node b, and
\* a position naming a node nobody has heard of.
PeerPayloads ==
    {OtherPayload}
    \cup { PositionPayload("b", t) : t \in PeerTimestamps }
    \cup { PositionPayload(UnknownNodeId, 1) }

\* The messages other senders frame, before signing: a command whose sender
\* field names either node, and blue_force reports of node b with and
\* without a well-formed position.
PeerMessages ==
    { TacticalMessage(id, TOPIC_COMMAND, sender, <<>>, 2, 1, OtherPayload,
                      NullSig) :
        id \in PeerMsgIds, sender \in NodeIds }
    \cup
    { TacticalMessage(id, TOPIC_BLUE_FORCE, "b", <<>>, 2, 1, payload, NullSig) :
        id \in PeerMsgIds, payload \in PeerPayloads }

\* A frame whose signature is made over the envelope without the key
\* "signature": the bytes _decode_message reconstructs.
SignedFrame(identity, message) ==
    LET unsigned == Envelope("1.0", identity, PopSignature(message))
    IN Envelope("1.0", identity,
                [message EXCEPT !.signature =
                    SignMessage(identity.verify_key, JsonDumps(unsigned))])

\* The payload altered after signing.
Tampered(frame) ==
    [frame EXCEPT !.message.payload =
        IF @ = OtherPayload THEN PositionPayload("b", 1) ELSE OtherPayload]

\* Who frames what: node b frames every peer message; the holder of the
\* other key pair, claiming to be node b, frames the commands.
PeerSenders ==
    { x \in PeerIdentities \X PeerMessages :
        x[1].verify_key = "VKb" \/ x[2].topic = TOPIC_COMMAND }

\* Every datagram another sender may put on a link: framed by a peer running
\* this code (EncodeMessage), signed over the bytes the receiver
\* reconstructs, signature null / empty / key absent, tampered after
\* signing, signed by a key other than the one advertised, and a JSON
\* object that has no "message" key.
PeerFrames ==
    UNION { { EncodeMessage(x[1], x[2]),
              SignedFrame(x[1], x[2]),
              Envelope("1.0", x[1], x[2]),
              Envelope("1.0", x[1], [x[2] EXCEPT !.signature = EmptySig]),
              Envelope("1.0", x[1], PopSignature(x[2])),
              Tampered(SignedFrame(x[1], x[2])),
              [SignedFrame([x[1] EXCEPT !.verify_key = "VKy"], x[2])
                  EXCEPT !.sender_identity = x[1]] } :
            x \in PeerSenders }
    \cup { [version |-> "1.0", sender_identity |-> id] : id \in PeerIdentities }

(* ---------------------------- kinds of datagram ------------------------ *)
\* What a datagram is, told from its bytes alone: not an envelope; an
\* envelope whose message has no "signature" key, a null or an empty
\* signature; one signed by the advertised key over exactly the bytes
\* _decode_message reconstructs ("authentic"); one signed by the advertised
\* key over the same envelope with another payload ("altered"); or anything
\* else ("unverifiable").
Classify(frame) ==
    IF ~Parses(frame) THEN "malformed"
    ELSE IF "signature" \notin DOMAIN frame.message THEN "no_signature"
    ELSE LET signature == frame.message.signature
             verify_key == frame.sender_identity.verify_key
         IN IF signature = NullSig THEN "null_signature"
            ELSE IF signature = EmptySig THEN "empty_signature"
            ELSE IF signature = SignMessage(verify_key, VerifyData(frame))
                 THEN "authentic"
            ELSE IF \E payload \in PeerPayloads \ {frame.message.payload} :
                       signature = SignMessage(verify_key,
                           VerifyData([frame EXCEPT !.message.payload = payload]))
                 THEN "altered"
            ELSE "unverifiable"

Unsigned == {"no_signature", "null_signature", "empty_signature"}

(* ---------------------------- inbound path ----------------------------- *)
\* TactiMeshNode._broadcast_to_clients: `bad` are the clients whose
\* send_text raises; they are removed from connected_clients.
PushTo(clients, bad, message, log) ==
    [o \in Observers |->
        IF o \in clients \ bad THEN Append(log[o], message) ELSE log[o]]

RemoveFromCopy(clients, copy, disconnected) == copy \ disconnected

\* `self.connected_clients -= disconnected` at the end of
\* _broadcast_to_clients: `copy` is the snapshot the loop iterated over,
\* `clients` the set as it is by then.
RemoveDisconnected(clients, copy, disconnected) == clients \ disconnected

FanOutBeforeStore(decoded, stored, isBlue, positionOk) ==
    decoded /\ (isBlue => positionOk)

\* Whether control reaches _broadcast_to_clients: store_message returned
\* (an exception there leaves the loop body), and for blue_force neither
\* Position(**payload) nor upsert_position raised (an exception there is
\* caught at the end of _process_received_message, past the broadcast).
FanOutReached(decoded, stored, isBlue, positionOk) ==
    decoded /\ stored /\ (isBlue => positionOk)

\* One datagram handled by TactiMeshNode.receive_loop: _decode_message
\* (verification, then upsert_node), store_message,
\* _process_received_message (upsert_position for blue_force, then the
\* fan-out), inbox.put.  `fail` names the store call in which sqlite3
\* raises, if any; an exception inside _process_received_message is caught
\* there and skips the fan-out only.
HandleDatagram(frame, fail, bad) ==
    LET message == frame.message
        sender_identity == frame.sender_identity
        decoded == DecodeVerifies(frame) /\ fail # "upsert_node"
        stored == decoded /\ fail # "store_message"
        isBlue == message.topic = TOPIC_BLUE_FORCE
        positionOk == message.payload.shape = "position" /\ fail # "upsert_position"
        fanout == FanOutReached(decoded, stored, isBlue, positionOk)
        raised == IF decoded /\ fail = "store_message" THEN "Exception" ELSE "none"
    IN /\ running
       /\ tasks.receive_loop = "running"
       /\ awaiting = NoPush
       /\ UNCHANGED <<awaiting, running, adapters, stopRequested, lastSent,
                   sideVars>>
       /\ tasks' = [tasks EXCEPT !.receive_loop = AfterIteration(raised)]
       /\ nodes' = IF decoded THEN UpsertNode(nodes, sender_identity, Now + 1)
                   ELSE nodes
       /\ messages' = IF stored THEN StoreMessage(messages, message) ELSE messages
       /\ positions' = IF stored /\ isBlue /\ positionOk
                       THEN UpsertPosition(positions, message.payload)
                       ELSE positions
       /\ delivered' = IF fanout
                       THEN PushTo(connected_clients, bad, message, delivered)
                       ELSE delivered
       /\ connected_clients' =
             IF fanout
             THEN RemoveDisconnected(connected_clients, connected_clients, bad)
             ELSE connected_clients
       /\ inbox' = IF stored THEN Append(inbox, <<message, sender_identity>>)
                   ELSE inbox
       /\ lastRead' = [class |-> Classify(frame),
                       frame |-> IF Classify(frame) = "authentic" THEN frame
                                 ELSE NoFrame,
                       fail |-> fail,
                       raised |-> IF fanout THEN bad \cap connected_clients ELSE {}]

\* The same, when the send_text to the connected client `slow` has not
\* returned: nothing bounds the await, so the loop stays inside
\* _broadcast_to_clients.  The frame is authentic, no store call raised and
\* the fan-out was reached; `before` are the clients the iteration over the
\* set came to first.
HandleDatagramSlow(frame, slow, before) ==
    LET message == frame.message
        sender_identity == frame.sender_identity
        isBlue == message.topic = TOPIC_BLUE_FORCE
        positionOk == message.payload.shape = "position"
    IN /\ running
       /\ tasks.receive_loop = "running"
       /\ awaiting = NoPush
       /\ DecodeVerifies(frame)
       /\ FanOutReached(TRUE, TRUE, isBlue, positionOk)
       /\ slow \in connected_clients
       /\ before \subseteq connected_clients \ {slow}
       /\ nodes' = UpsertNode(nodes, sender_identity, Now + 1)
       /\ messages' = StoreMessage(messages, message)
       /\ positions' = IF isBlue THEN UpsertPosition(positions, message.payload)
                       ELSE positions
       /\ delivered' = PushTo(before, {}, message, delivered)
       /\ awaiting' = [observer |-> slow, message |-> message,
                       sender_identity |-> sender_identity,
                       copy |-> connected_clients,
                       rest |-> connected_clients \ (before \cup {slow})]
       /\ lastRead' = [class |-> Classify(frame), frame |-> frame, fail |-> "none",
                       raised |-> {}]
       /\ UNCHANGED <<connected_clients, inbox, running, adapters, stopRequested, tasks, lastSent,
                   sideVars>>

\* The awaited send_text ends at last, by returning or by raising: the
\* iteration goes on over the remaining clients, the client that raised is
\* removed, and receive_loop puts the message on the inbox.
PushReturns(raises) ==
    /\ awaiting # NoPush
    /\ delivered' = PushTo(awaiting.rest \cup {awaiting.observer},
                           IF raises THEN {awaiting.observer} ELSE {},
                           awaiting.message, delivered)
    /\ connected_clients' =
          RemoveDisconnected(connected_clients, awaiting.copy,
                             IF raises THEN {awaiting.observer} ELSE {})
    /\ lastRead' = [lastRead EXCEPT
                       !.raised = IF raises THEN {awaiting.observer} ELSE {}]
    /\ inbox' = Append(inbox, <<awaiting.message, awaiting.sender_identity>>)
    /\ awaiting' = NoPush
    /\ UNCHANGED <<nodes, positions, messages, outbox, transports, wire, calls,
                   nrecv, nloop, running, adapters, stopRequested, tasks, lastSent,
                   sideVars>>

\* websocket_endpoint: a client connects and is added to the set.  This
\* can happen whenever the receive loop is suspended, the awaits inside
\* _broadcast_to_clients included.
Connect(observer) ==
    /\ observer \notin connected_clients
    /\ connected_clients' = connected_clients \cup {observer}
    /\ UNCHANGED <<nodes, positions, messages, outbox, inbox, transports, wire,
                   delivered, calls, nrecv, nloop, lastRead, awaiting, running,
                   tasks, lastSent, adapters, stopRequested, sideVars>>

\* The receive loop reads a datagram of another sender and meets a client
\* whose send_text does not return.
ReceiveLoopSlow(frame, slow, before) ==
    /\ nrecv < MaxRecv
    /\ nrecv' = nrecv + 1
    /\ HandleDatagramSlow(frame, slow, before)
    /\ UNCHANGED <<outbox, transports, wire, calls, nloop>>

StoreFailures == {"none", "upsert_node", "store_message", "upsert_position"}

\* What can go wrong while one datagram is handled: sqlite3 raising in one
\* store call, or send_text raising for some clients.  Nothing is reached
\* when the frame does not verify.
Faults(frame) ==
    IF DecodeVerifies(frame)
    THEN { [fail |-> f, bad |-> {}] : f \in StoreFailures }
         \cup { [fail |-> "none", bad |-> b] : b \in SUBSET Observers \ {{}} }
    ELSE { [fail |-> "none", bad |-> {}] }

\* The receive loop reads a datagram of another sender.
ReceiveLoop(frame, fail, bad) ==
    /\ nrecv < MaxRecv
    /\ nrecv' = nrecv + 1
    /\ HandleDatagram(frame, fail, bad)
    /\ UNCHANGED <<outbox, transports, wire, calls, nloop>>

\* The receive loop reads a datagram that this code framed and sent: the
\* i-th frame on the wire, unmodified.
ReceiveOwnFrame(i, fail, bad) ==
    /\ nloop < MaxLoop
    /\ nloop' = nloop + 1
    /\ HandleDatagram(wire[i].data, fail, bad)
    /\ UNCHANGED <<outbox, transports, wire, calls, nrecv>>

(* ---------------------------- specification ---------------------------- *)
Send ==
    \E priority \in Priorities, storeOk \in BOOLEAN :
        SendMessage(TOPIC_COMMAND, OtherPayload, <<>>, priority, storeOk)

\* What callers pass to update_position as (lat, lon, accuracy, speed): the
\* corner of the valid range, and one value out of range in each field.
PositionFixes ==
    { <<90, -180, 10, 0>>, <<91, 0, 10, 0>>, <<0, 181, 10, 0>>,
      <<0, 0, -1, 0>>, <<0, 0, 10, -1>> }

Update ==
    \E fix \in PositionFixes, upsertOk \in BOOLEAN, storeOk \in BOOLEAN :
        UpdatePosition(fix[1], fix[2], fix[3], fix[4], upsertOk, storeOk)

\* What callers pass to send_message as recipients: nothing, and a list
\* naming another node.
RecipientLists == { <<>>, <<"b">> }

\* send_message with a list of recipients.
SendDirected ==
    \E recipients \in RecipientLists \ {<<>>}, priority \in Priorities,
       storeOk \in BOOLEAN :
        SendMessage(TOPIC_COMMAND, OtherPayload, recipients, priority, storeOk)

Transmit ==
    \/ \E encodeOk \in BOOLEAN, failed \in SUBSET {"batman", "lora"} :
          TransmitLoop(encodeOk, failed)
    \/ TransmitIdle

Receive ==
    \E frame \in PeerFrames : \E fault \in Faults(frame) :
        ReceiveLoop(frame, fault.fail, fault.bad)

\* Commands of node b, signed over the bytes the receiver reconstructs,
\* addressed to nobody, to this node, and to a node that is not this one.
DirectedFrames ==
    { SignedFrame([node_id |-> "b", verify_key |-> "VKb"],
                  TacticalMessage(id, TOPIC_COMMAND, "b", recipients, 2, 1,
                                  OtherPayload, NullSig)) :
        id \in PeerMsgIds,
        recipients \in { <<>>, <<Identity.node_id>>, <<UnknownNodeId>> } }

ReceiveDirected ==
    \E frame \in DirectedFrames : \E fault \in Faults(frame) :
        ReceiveLoop(frame, fault.fail, fault.bad)

ReceiveQuiet ==
    \E frame \in PeerFrames :
        \E fault \in { f \in Faults(frame) : f.bad = {} } :
            ReceiveLoop(frame, fault.fail, fault.bad)

ReceiveOwn ==
    \E i \in DOMAIN wire : \E fault \in Faults(wire[i].data) :
        ReceiveOwnFrame(i, fault.fail, fault.bad)

ReceiveSlow ==
    \E frame \in PeerFrames, slow \in Observers : \E before \in SUBSET Observers :
        ReceiveLoopSlow(frame, slow, before)

PushEnds == \E raises \in BOOLEAN : PushReturns(raises)

Connects == \E observer \in Observers : Connect(observer)

\* The node with its callers, its transports, its peers and its observers.
Start == \E batman \in BatmanOutcomes, lora \in LoRaOutcomes : StartNode(batman, lora)

Reboot == \E readable \in BOOLEAN, save \in SaveOutcomes : Restart(readable, save)

TransmitOne == \E encodeOk \in BOOLEAN : TransmitBegin(encodeOk)

SendEnds ==
    \E transport \in {"batman", "lora"}, failed \in BOOLEAN :
        TransportSendEnds(transport, failed)

Next ==
    \/ Send \/ Transmit \/ Receive \/ ReceiveOwn \/ ReceiveSlow \/ PushEnds
    \/ StopTransports \/ Update \/ Start \/ Reboot \/ CheckGeofence
    \/ TransmitOne \/ SendEnds \/ Connects \/ SendDirected \/ ReceiveDirected

Spec == Init /\ [][Next]_vars

\* The outbound path alone: callers of send_message and the transmit loop.
NextTx == Send \/ Transmit

SpecTx == Init /\ [][NextTx]_vars

\* The fan-out with pushes that take time, while clients connect.
NextFan == ReceiveSlow \/ PushEnds \/ Connects

SpecFan == Init /\ [][NextFan]_vars

\* Messages with and without recipients: either the outbound path or the
\* inbound path.
NextRoute ==
    \/ nrecv = 0 /\ (Send \/ SendDirected \/ Transmit)
    \/ calls = <<>> /\ ReceiveDirected

SpecRoute == Init /\ [][NextRoute]_vars

\* The outbound path with the transports' sends as steps of their own.
NextSend == Send \/ TransmitOne \/ SendEnds

SpecSend == Init /\ [][NextSend]_vars

\* The inbound path alone: the receive loop reading what other senders sent,
\* with observers that answer each push at once (send_text returns or raises).
NextRx == Receive

SpecRx == Init /\ [][NextRx]_vars

\* The inbound path with observers that may take any time over a push.
NextObs == Receive \/ ReceiveSlow \/ PushEnds

SpecObs == Init /\ [][NextObs]_vars

\* The outbound path with a host that asks for shutdown.
NextStop == Send \/ Transmit \/ StopTransports

SpecStop == Init /\ [][NextStop]_vars

\* Construction, start and restart of the process, nothing else.
NextBoot == Start \/ Reboot

SpecBoot == InitBoot /\ [][NextBoot]_vars

\* The inbound path with observers whose send_text never raises: what is
\* left to go wrong is the store.
NextQuiet == ReceiveQuiet

SpecQuiet == Init /\ [][NextQuiet]_vars

\* Positions: runs of local position updates with the transmit loop, and
\* runs of the inbound path; the two meet only in the positions table, where
\* they write rows of different node_ids.
NextPos ==
    \/ nrecv = 0 /\ (Update \/ Transmit)
    \/ nupdate = 0 /\ NextQuiet

SpecPos == Init /\ [][NextPos]_vars

\* Either path on its own: runs in which only the outbound path or only the
\* inbound path is active.  The two loops are separate tasks that share
\* nothing but the store.
NextEither ==
    \/ nrecv = 0 /\ NextTx
    \/ calls = <<>> /\ NextRx

SpecEither == Init /\ [][NextEither]_vars

\* The node hearing its own code: what the transmit loop framed comes back
\* unmodified, as it does at a peer running the same code.
NextLoop == Send \/ Transmit \/ ReceiveOwn

SpecLoop == Init /\ [][NextLoop]_vars

(* ======================================================================= *)
(* Properties                                                              *)
(* ======================================================================= *)

\* The position on the wire of the frame carrying the message of call i, if any.
WirePositions(i) ==
    { p \in DOMAIN wire : wire[p].data.message.msg_id = calls[i].message.msg_id }

\* The frame a receiver rebuilds from an inbox entry (message, sender_identity).
InboxFrame(entry) == Envelope("1.0", entry[2], entry[1])

\* C1: round trip.  Every frame the transmit loop framed for a message M of
\* send_message passes the verification of _decode_message at a receiver: the
\* bytes the receiver reconstructs are the bytes the sender signed, and the
\* decoded message is M in every field but signature.
C1_RoundTrip ==
    \A p \in DOMAIN wire :
        LET frame == wire[p].data
        IN /\ VerifyData(frame) = frame.message.signature.data
           /\ DecodeVerifies(frame)
           /\ \E i \in DOMAIN calls :
                 PopSignature(frame.message) = PopSignature(calls[i].message)

\* C2: every inbound frame that the receive loop accepted (stored, pushed to
\* observers, put on the inbox) carries a signature made with the key pair of
\* the verify key in its sender_identity over the envelope without the
\* signature; nothing else is ever stored or delivered.
C2_AcceptedFramesVerify ==
    /\ \A k \in DOMAIN inbox :
          LET frame == InboxFrame(inbox[k])
          IN frame.message.signature =
                SignMessage(frame.sender_identity.verify_key, VerifyData(frame))
    /\ \A id \in DOMAIN messages :
          \E k \in DOMAIN inbox : inbox[k][1] = messages[id]
    /\ \A o \in Observers : \A j \in DOMAIN delivered[o] :
          \E k \in DOMAIN inbox : inbox[k][1] = delivered[o][j]

\* C2 witness: a frame was accepted, stored and pushed to an observer.
C2_Witness ==
    /\ inbox # <<>>
    /\ messages # EmptyTable
    /\ \E o \in Observers : delivered[o] # <<>>

\* C3: trust on first use.  The verify key stored for a node_id never
\* changes once the node row exists.
C3_TrustOnFirstUse ==
    [][\A n \in DOMAIN nodes :
          n \in DOMAIN nodes' /\ nodes'[n].verify_key = nodes[n].verify_key]_vars

\* C4: no observer is pushed the same (sender, msg_id) twice.
C4_NoDuplicateDelivery ==
    \A o \in Observers : \A j, k \in DOMAIN delivered[o] :
        (/\ delivered[o][j].sender = delivered[o][k].sender
         /\ delivered[o][j].msg_id = delivered[o][k].msg_id) => j = k

\* C5: store_message inserts only when (sender, msg_id) is absent: a stored
\* row is never changed or displaced by a later store_message, so messages
\* of different senders sharing a msg_id are both kept.
C5_StoreMessageInsertIfAbsent ==
    [][\A id \in DOMAIN messages :
          \E id2 \in DOMAIN messages' : messages'[id2] = messages[id]]_vars

\* C6: position monotonicity.  The timestamp of the position stored for a
\* node never decreases.
C6_PositionMonotone ==
    [][\A n \in DOMAIN positions :
          /\ n \in DOMAIN positions'
          /\ positions'[n].timestamp >= positions[n].timestamp]_vars

\* C7: priority overtake.  When call j enqueued a message of smaller priority
\* number than the message of an earlier call i, and i's frame had not been
\* sent when j was called, j's frame is sent before i's frame.
C7_PriorityOvertake ==
    \A i, j \in DOMAIN calls :
        (/\ i < j
         /\ calls[i].outcome = "queued"
         /\ calls[j].outcome = "queued"
         /\ calls[j].message.priority < calls[i].message.priority)
        => \A p \in WirePositions(i) :
              calls[j].sentBefore < p => \E q \in WirePositions(j) : q < p

\* C8: FIFO within a priority.  Two messages of the same priority are both
\* accepted by the outbound queue, and the later one is not sent before the
\* earlier one.
C8_FifoWithinPriority ==
    \A i, j \in DOMAIN calls :
        (/\ i < j
         /\ calls[i].outcome # "store_error"
         /\ calls[j].outcome # "store_error"
         /\ calls[j].message.priority = calls[i].message.priority)
        => /\ calls[i].outcome = "queued"
           /\ calls[j].outcome = "queued"
           /\ \A q \in WirePositions(j) : \E p \in WirePositions(i) : p < q

\* C9: every message send_message was called for is transmitted on every
\* active transport: once the transmit loop has emptied the queue, each call
\* has its frame on the wire, sent on all of self.transports.
C9_EveryMessageTransmitted ==
    outbox = <<>> =>
        \A i \in DOMAIN calls :
            \E p \in WirePositions(i) :
                wire[p].on = {transports[t] : t \in DOMAIN transports}

\* C10: every message row carries a signature that verifies against the
\* stored verify key of the row's sender.
C10_StoredSignaturesVerify ==
    \A id \in DOMAIN messages :
        LET row == messages[id]
        IN /\ row.sender \in DOMAIN nodes
           /\ row.signature \notin {NullSig, EmptySig}
           /\ LET identity == [node_id |-> row.sender,
                               verify_key |-> nodes[row.sender].verify_key]
              IN VerifySignature(VerifyData(Envelope("1.0", identity, row)),
                                 row.signature, identity.verify_key)

\* C11: referential integrity of positions.  A position row is never stored
\* for a node_id that has no row in the nodes table.
C11_PositionHasNodeRow ==
    \A n \in DOMAIN positions : n \in DOMAIN nodes

\* A step in which the receive loop read a datagram.
DatagramRead == nrecv' # nrecv \/ nloop' # nloop

\* Such a step wrote nothing to the store and delivered nothing.
NothingStoredOrDelivered ==
    UNCHANGED <<nodes, positions, messages, delivered, inbox, connected_clients>>

\* C12: a frame whose payload was altered after signing is dropped: handling
\* it inserts or refreshes no node row, stores no message or position row and
\* delivers nothing to observers or the inbox.
C12_AlteredFrameDropped ==
    [][(DatagramRead /\ lastRead'.class = "altered")
          => NothingStoredOrDelivered]_vars

\* C12 witness: the receive loop has just handled an altered frame.
C12_Witness == nrecv > 0 /\ lastRead.class = "altered"

\* C13: an envelope with no signature (key absent, null or empty) is
\* dropped before any store write or observer delivery.
C13_UnsignedFrameDropped ==
    [][(DatagramRead /\ lastRead'.class \in Unsigned)
          => NothingStoredOrDelivered]_vars

\* C13 witness: the receive loop has just handled an envelope whose message
\* has no "signature" key.
C13_Witness == nrecv > 0 /\ lastRead.class = "no_signature"

\* The frame of the step's datagram, when it is authentic.
ReadFrame == lastRead'.frame

\* A step in which the receive loop read an authentic frame, no store call
\* raised, and no message of the same (sender, msg_id) was accepted before.
FreshAuthenticRead ==
    /\ DatagramRead
    /\ lastRead'.class = "authentic"
    /\ lastRead'.fail = "none"
    /\ ~ \E k \in DOMAIN inbox :
            /\ inbox[k][1].sender = ReadFrame.message.sender
            /\ inbox[k][1].msg_id = ReadFrame.message.msg_id

\* C14: once the receive loop has handled an authentic, non-duplicate frame
\* (no store error), the store contains the message, the node row of
\* sender_identity.node_id exists with the advertised verify key, and every
\* connected observer was pushed exactly one delivery of the message.
C14_AcceptedFrameHandled ==
    [][FreshAuthenticRead =>
          /\ \E id \in DOMAIN messages' : messages'[id] = ReadFrame.message
          /\ ReadFrame.sender_identity.node_id \in DOMAIN nodes'
          /\ nodes'[ReadFrame.sender_identity.node_id].verify_key
                = ReadFrame.sender_identity.verify_key
          /\ \A o \in connected_clients' :
                delivered'[o] = Append(delivered[o], ReadFrame.message)]_vars

\* C15: observers receive every authenticated inbound message whatever its
\* topic and payload: the last push to each connected observer is the
\* message of the frame just handled.
C15_EveryTopicPushed ==
    [][FreshAuthenticRead =>
          \A o \in connected_clients' :
              /\ delivered'[o] # delivered[o]
              /\ delivered'[o][Len(delivered'[o])] = ReadFrame.message]_vars

\* The messages table holds this message.
IsStored(table, message) == \E id \in DOMAIN table : table[id] = message

\* C17: persistence before delivery.  When store_message raises for an
\* accepted frame the message is pushed to no observer and not put on the
\* inbox; every message pushed to an observer or put on the inbox is, at
\* that moment, a row of the messages table.
C17_StoredBeforeDelivered ==
    [][/\ (DatagramRead /\ lastRead'.fail = "store_message")
            => UNCHANGED <<delivered, inbox, messages, positions>>
       /\ \A o \in Observers :
             delivered'[o] # delivered[o]
                => IsStored(messages', delivered'[o][Len(delivered'[o])])
       /\ inbox' # inbox => IsStored(messages', inbox'[Len(inbox')][1])]_vars

\* C17 witness: store_message has just raised for an authentic frame.
C17_Witness ==
    /\ nrecv > 0
    /\ lastRead.class = "authentic"
    /\ lastRead.fail = "store_message"

\* C16: a slow observer does not block the receive loop.  A push that has
\* not completed within the deadline is abandoned: the receive loop is never
\* left suspended in the push to an observer.
C16_SlowObserverAbandoned == awaiting = NoPush

\* C18: a store error inside send_message does not stop the send: the
\* message of such a call is on the outbound queue or already on the wire.
C18_SentDespiteStoreError ==
    \A i \in DOMAIN calls :
        calls[i].outcome = "store_error"
            => \/ \E k \in DOMAIN outbox : outbox[k][2] = calls[i].message
               \/ WirePositions(i) # {}

\* C19: neither loop terminates because of a per-message error.  Whatever
\* went wrong in an iteration (encode or sign failure, a failing transport
\* send, a TypeError of the queue, a malformed or unverifiable frame, a store
\* error), both tasks are still running while the node is running.
C19_LoopsSurviveErrors ==
    running => /\ tasks.transmit_loop = "running"
               /\ tasks.receive_loop = "running"

\* C19 witness: _encode_message has just raised in the transmit loop, the
\* loop is still running and the next message is waiting in the queue.
C19_Witness ==
    /\ lastSent.error = "encode_error"
    /\ running
    /\ tasks.transmit_loop = "running"
    /\ outbox # <<>>

\* C20: shutdown.  Once stop has been requested both loops have terminated
\* and no transport is running.
C20_StopTerminates ==
    stopRequested =>
        /\ ~running
        /\ tasks.transmit_loop = "terminated"
        /\ tasks.receive_loop = "terminated"
        /\ \A t \in DOMAIN adapters : ~adapters[t].running

\* C21: send_message reports its outcome.  What a call that queued its
\* message returns differs from what a call returns whose message could not
\* be persisted or could not be enqueued.
C21_OutcomeReported ==
    \A i, j \in DOMAIN calls :
        (calls[i].outcome = "queued" /\ calls[j].outcome # "queued")
            => calls[i].returned # calls[j].returned

\* The row upsert_position writes for a position.
PositionRow(position) ==
    [k \in DOMAIN position \ {"shape"} |-> position[k]]

\* C22: update_position upserts the position of the node's own node_id and
\* then calls send_message with topic blue_force, the position as payload
\* and priority 2: a call that reaches send_message has written the row,
\* a call whose upsert went through reaches send_message, and a call whose
\* upsert failed leaves the messages table, the outbound queue and the
\* record of send_message calls as they were.
C22_UpsertThenBroadcast ==
    [][nupdate' # nupdate =>
          LET position == current_position'
              upserted == /\ Identity.node_id \in DOMAIN positions'
                          /\ positions'[Identity.node_id] = PositionRow(position)
              sent == calls' # calls
          IN /\ position.node_id = Identity.node_id
             /\ upserted <=> sent
             /\ ~upserted => UNCHANGED <<positions, messages, outbox, calls>>
             /\ sent =>
                   LET message == calls'[Len(calls')].message
                   IN /\ Len(calls') = Len(calls) + 1
                      /\ message.topic = TOPIC_BLUE_FORCE
                      /\ message.payload = position
                      /\ message.priority = 2]_vars

\* C22 witness: a call of update_position whose upsert failed, after one
\* that went through.
C22_Witness ==
    /\ nupdate = 2
    /\ Len(calls) = 1
    /\ Identity.node_id \in DOMAIN positions
    /\ positions[Identity.node_id] # PositionRow(current_position)

\* C23: for each node_id the positions table holds at most one row, after
\* any sequence of local position updates and accepted blue_force frames.
C23_OnePositionPerNode ==
    \A k1, k2 \in DOMAIN positions :
        positions[k1].node_id = positions[k2].node_id => k1 = k2

\* C23 witness: two local updates were upserted, one after the other.
C23_Witness ==
    /\ nupdate = 2
    /\ Len(calls) = 2
    /\ \E k \in DOMAIN positions :
          /\ positions[k].node_id = Identity.node_id
          /\ positions[k].timestamp = 2

\* C24: every position row has lat in [-90, 90], lon in [-180, 180] and
\* non-negative accuracy and speed.
C24_PositionsInRange ==
    \A k \in DOMAIN positions :
        /\ positions[k].lat \in -90..90
        /\ positions[k].lon \in -180..180
        /\ positions[k].accuracy >= 0
        /\ positions[k].speed >= 0

\* A step in which _decode_message returned a message: the frame is
\* authentic and upsert_node did not raise.
AuthenticatedRead ==
    /\ DatagramRead
    /\ lastRead'.class = "authentic"
    /\ lastRead'.fail # "upsert_node"

C26_NodeIdStable ==
    [][/\ keys'.node_id = keys.node_id
       /\ key_file.state = "keys" => key_file' = key_file]_vars

\* C27: a constructed node never works with keys the key file does not
\* hold.
C27_NoUnpersistedKeys == key_file = KeysFile(keys)

\* C28: an adapter whose start() returned False (it was made but is not in
\* self.transports) holds no handle and is not running.
C28_FailedStartNoEffects ==
    \A t \in DOMAIN adapters :
        (\A i \in DOMAIN transports : transports[i] # t)
            => adapters[t] = NewAdapter

\* C30: when start() was called and no transport started, start() returned
\* True and both loops run.
C30_RunsWithoutTransports ==
    (started # "not_called" /\ transports = <<>>)
        => /\ started = "True"
           /\ running
           /\ tasks.transmit_loop = "running"
           /\ tasks.receive_loop = "running"


\* The zones of the table that are active, of type HOSTILE or RESTRICTED,
\* and whose polygon has the point of the position in its interior.
ZonesViolated(table, position) ==
    { table[i].zone_id : i \in { j \in DOMAIN table :
          /\ table[j].active
          /\ table[j].zone_type \in {"HOSTILE", "RESTRICTED"}
          /\ Contains(table[j].polygon, Point(position)) } }

Dequeued == Len(outbox') < Len(outbox)

\* C31: a frame handed to the transports carries the node's own identity
\* and a signature, neither null nor empty, made with the node's key over
\* the serialized envelope in which message.signature is null; an
\* iteration in which signing raised hands nothing to the transports.
C31_AlwaysSigned ==
    [][/\ wire' # wire =>
             LET frame == wire'[Len(wire')].data
                 unset == [frame.message EXCEPT !.signature = NullSig]
             IN /\ frame.sender_identity = Identity
                /\ frame.message.signature \notin {NullSig, EmptySig}
                /\ frame.message.signature
                     = SignMessage(Identity.verify_key,
                                   JsonDumps(Envelope("1.0", Identity, unset)))
       /\ (Dequeued /\ lastSent'.error = "encode_error") => wire' = wire]_vars

\* C31 witness: a signed frame is on the wire and the signing of a later
\* message has failed.
C31_Witness ==
    /\ Len(wire) = 1
    /\ wire[1].data.message.signature.key = Identity.verify_key
    /\ lastSent.error = "encode_error"


\* C32: sender binding.  Every message the receive loop accepted and stored
\* (it is on the inbox with the identity that authenticated its frame)
\* names that identity's node_id in its sender field.
C32_SenderBinding ==
    \A i \in DOMAIN inbox : inbox[i][1].sender = inbox[i][2].node_id


\* C33: position ownership.  The position row of node n is created or
\* changed only by update_position of the node itself (n is its own id) or
\* by an accepted blue_force frame whose sender_identity is n.
C33_PositionOwnership ==
    [][\A n \in DOMAIN positions' :
          (n \notin DOMAIN positions \/ positions'[n] # positions[n])
             => \/ nupdate' # nupdate /\ n = Identity.node_id
                \/ /\ AuthenticatedRead
                   /\ ReadFrame.message.topic = TOPIC_BLUE_FORCE
                   /\ ReadFrame.sender_identity.node_id = n]_vars


\* The message of the send_message call that just ended.
CallEnded == calls' # calls

C35_SingleConsumer ==
    /\ ntasks.transmit_loop <= 1
    /\ ntasks.receive_loop <= 1
    /\ \A i, j \in DOMAIN transports : transports[i] = transports[j] => i = j


\* C36: the transmit loop takes a message off the outbound queue only when
\* no send_message task of the message before is still running.
C36_OneMessageAtATime == [][Dequeued => pending = {}]_vars

\* C36 witness: two frames have been handed to the transports, the sends
\* of the first having ended in between, one of them by raising, and a
\* send of the second is still running.
C36_Witness ==
    /\ Len(wire) = 2
    /\ wire[1].on = {"batman", "lora"}
    /\ pending = {"lora"}
    /\ lastSent.error = "send_error"


\* A fan-out that was suspended in a push comes to its end.
FanOutEnds == awaiting # NoPush /\ awaiting' = NoPush

\* C37: when a fan-out ends, the clients whose push raised are out of the
\* set, every other client of the set the fan-out iterated over has the
\* message as its latest push, and the clients that connected while the
\* fan-out was in progress are still in the set.
C37_FanOutIsolatesFailures ==
    [][FanOutEnds =>
         /\ lastRead'.raised \cap connected_clients' = {}
         /\ \A o \in awaiting.copy \ lastRead'.raised :
               /\ delivered'[o] # <<>>
               /\ delivered'[o][Len(delivered'[o])] = awaiting.message
         /\ \A o \in connected_clients \ awaiting.copy :
               o \in connected_clients']_vars

\* C37 witness: o1 was removed by an earlier fan-out and connected again
\* while the push of a second message to o2 was pending; that push raised,
\* o2 is gone and o1 is still connected.
C37_Witness ==
    /\ nrecv = 2
    /\ awaiting = NoPush
    /\ lastRead.raised = {"o2"}
    /\ connected_clients = {"o1"}
    /\ Len(delivered["o1"]) = 0


\* A step in which transmit_loop handed a frame to the transports.
FrameSent == Len(wire') > Len(wire)

\* C38: recipients do not affect routing.  Every frame the transmit loop
\* sends, whether the recipients list of its message is empty or not, goes
\* out with no destination (broadcast) on every transport of the node; and
\* once the receive loop has handled an accepted frame (no store error) the
\* message is a row of the messages table, on the inbox, and pushed to every
\* connected observer whose push did not raise, whether or not the node's
\* own node_id is in the recipients list.
C38_RecipientsDoNotRoute ==
    [][/\ FrameSent =>
            /\ wire'[Len(wire')].destination = NoDestination
            /\ wire'[Len(wire')].on = {transports[i] : i \in DOMAIN transports}
       /\ (DatagramRead /\ lastRead'.class = "authentic"
                        /\ lastRead'.fail = "none") =>
            /\ IsStored(messages', ReadFrame.message)
            /\ inbox' # <<>>
            /\ inbox'[Len(inbox')][1] = ReadFrame.message
            /\ \A o \in connected_clients \ lastRead'.raised :
                  /\ delivered'[o] # <<>>
                  /\ delivered'[o][Len(delivered'[o])] = ReadFrame.message]_vars

\* C38 witness: a message addressed to node b and one addressed to nobody
\* have both gone out, as broadcasts on both transports.
C38_Witness ==
    /\ \E p \in DOMAIN wire :
          /\ wire[p].data.message.recipients = <<"b">>
          /\ wire[p].destination = NoDestination
          /\ wire[p].on = {"batman", "lora"}
    /\ \E p \in DOMAIN wire : wire[p].data.message.recipients = <<>>

====
